---- MODULE Spec2Model ----
(***************************************************************************)
(* A model of the in-memory disk of isotropy-webdisk (class Disk).         *)
(*                                                                         *)
(* Strings of the program that are taken apart by the code (paths, node    *)
(* names) are sequences of one-character strings, so that split("/"),      *)
(* endsWith("/"), startsWith and join compute what the JavaScript does.    *)
(* A file node is [name, contents]; a directory node is [name, children],  *)
(* where children is the array the source keeps in `contents`: isDir is    *)
(* the source's Array.isArray(obj.contents).                               *)
(* A thrown exception is the value Err(kind, path): kind is the fixed part *)
(* of the message, path the path interpolated into it.                     *)
(***************************************************************************)
EXTENDS Integers, Sequences, FiniteSets, TLC

VARIABLES fsTree, last, nops, heap, fsRoot, snapshot, resets, calls

vars == <<fsTree, last, nops, heap, fsRoot, snapshot, resets, calls>>

(***************************************************************************)
(* Bounds of the model.                                                    *)
(***************************************************************************)
MaxOps == 2

(***************************************************************************)
(* Values.                                                                 *)
(***************************************************************************)
Undefined == [undef |-> TRUE]

Err(kind, path) == [ok |-> FALSE, err |-> kind, path |-> path]

Ok(v) == [ok |-> TRUE, val |-> v]

IsErr(v) == "err" \in DOMAIN v

IsUndefined(v) == "undef" \in DOMAIN v

FileNode(n, c) == [name |-> n, contents |-> c]

DirNode(n, cs) == [name |-> n, children |-> cs]

(***************************************************************************)
(* JavaScript string and array primitives the code uses.                   *)
(***************************************************************************)
RECURSIVE split(_)
split(p) ==
  IF p = <<>> THEN << <<>> >>
  ELSE LET r == split(Tail(p))
       IN  IF Head(p) = "/" THEN << <<>> >> \o r
           ELSE << <<Head(p)>> \o Head(r) >> \o Tail(r)

RECURSIVE join(_)
join(parts) ==
  IF parts = <<>> THEN <<>>
  ELSE IF Len(parts) = 1 THEN parts[1]
  ELSE parts[1] \o <<"/">> \o join(Tail(parts))

endsWithSlash(p) == Len(p) > 0 /\ p[Len(p)] = "/"

startsWith(s, prefix) ==
  /\ Len(prefix) <= Len(s)
  /\ SubSeq(s, 1, Len(prefix)) = prefix

RECURSIVE filter(_, _)
filter(cs, n) ==
  IF cs = <<>> THEN <<>>
  ELSE IF Head(cs).name # n THEN <<Head(cs)>> \o filter(Tail(cs), n)
  ELSE filter(Tail(cs), n)

RECURSIVE find(_, _)
find(cs, n) ==
  IF cs = <<>> THEN Undefined
  ELSE IF Head(cs).name = n THEN Head(cs)
  ELSE find(Tail(cs), n)

(***************************************************************************)
(* The module-level helpers of the disk.                                   *)
(***************************************************************************)
toParts(path) ==
  LET parts == split(path)
  IN  SubSeq(parts, 1, IF endsWithSlash(path) THEN Len(parts) - 1 ELSE Len(parts))

(* isChild as a raw string prefix test, without the "/" that anchors the   *)
(* prefix at a segment boundary.                                           *)
isChild_rawPrefix(maybeParent, node) == startsWith(node, maybeParent)

isChild(maybeParent, node) ==
  startsWith(node, IF endsWithSlash(maybeParent) THEN maybeParent
                   ELSE maybeParent \o <<"/">>)

isDir(obj) == "children" \in DOMAIN obj

(* isFile with the negation left out.                                      *)
isFile_notNegated(obj) == isDir(obj)

isFile(obj) == ~isDir(obj)

getNodeName(path) == LET parts == toParts(path) IN parts[Len(parts)]

isValidFilePath(path) == ~endsWithSlash(path)

getParentPath(path) ==
  LET parts == toParts(path) IN join(SubSeq(parts, 1, Len(parts) - 1))

getFilename(path) ==
  IF endsWithSlash(path) THEN Err("is not a file", path) ELSE getNodeName(path)

(***************************************************************************)
(* The functions the code passes to cloneDirWithModification, as data:     *)
(* the file-writing one of _createFile, the appending one of _createDir    *)
(* and moveAndDeleteOriginal, the filtering one of the removes.            *)
(***************************************************************************)
ModPutFile(path, contents, force) ==
  [m |-> "putFile", path |-> path, contents |-> contents, force |-> force]

ModAppend(node) == [m |-> "append", node |-> node]

ModRemove(n) == [m |-> "remove", name |-> n]

fnModify(mod, dir) ==
  IF mod.m = "putFile" THEN
    LET filename == getFilename(mod.path)
    IN  IF IsUndefined(find(dir.children, filename)) \/ mod.force
        THEN DirNode(dir.name,
                     Append(filter(dir.children, filename),
                            FileNode(filename, mod.contents)))
        ELSE Err("already exists", mod.path)
  ELSE IF mod.m = "append" THEN
    DirNode(dir.name, Append(dir.children, mod.node))
  ELSE
    DirNode(dir.name, filter(dir.children, mod.name))

RECURSIVE doCloneDirWithModification(_, _, _), mapContents(_, _, _)
doCloneDirWithModification(tree, path, mod) ==
  IF Len(path) = 1 THEN fnModify(mod, tree)
  ELSE LET mapped == mapContents(tree.children, path, mod)
       IN  IF IsErr(mapped) THEN mapped ELSE DirNode(tree.name, mapped.val)

(* tree.contents.map(item => ...): the first item whose callback throws    *)
(* ends the map with that exception.                                       *)
mapContents(items, path, mod) ==
  IF items = <<>> THEN Ok(<<>>)
  ELSE
    LET item == Head(items)
        new  == IF item.name # path[2] THEN item
                ELSE IF isDir(item)
                THEN doCloneDirWithModification(item, Tail(path), mod)
                ELSE Err("is not a directory", <<"/">> \o join(path))
    IN  IF IsErr(new) THEN new
        ELSE LET rest == mapContents(Tail(items), path, mod)
             IN  IF IsErr(rest) THEN rest ELSE Ok(<<new>> \o rest.val)

(* The modified target directory taken for the new tree, its ancestors not *)
(* rebuilt around it.                                                      *)
cloneDirWithModification_targetOnly(tree, path, mod) ==
  LET parts == toParts(path)
      node  == IF Len(parts) = 2 THEN find(tree.children, parts[2]) ELSE Undefined
  IN  IF IsUndefined(node) \/ isFile(node)
      THEN doCloneDirWithModification(tree, parts, mod)
      ELSE fnModify(mod, node)

cloneDirWithModification(tree, path, mod) ==
  doCloneDirWithModification(tree, toParts(path), mod)

(***************************************************************************)
(* Lookup.                                                                 *)
(***************************************************************************)
RECURSIVE loop(_, _, _, _)
loop(tree, parts, path, mustBeDir) ==
  IF IsUndefined(tree) THEN Undefined
  ELSE IF Len(parts) > 0
  THEN IF isDir(tree)
       THEN loop(find(tree.children, parts[1]), Tail(parts), path, mustBeDir)
       ELSE Err("is invalid", path)
  ELSE IF ~mustBeDir \/ isDir(tree) THEN tree
  ELSE Err("exists but is not a directory", path)

getNode(tree, path) ==
  IF path = <<"/">> THEN tree
  ELSE loop(tree, Tail(toParts(path)), path, endsWithSlash(path))

(* getDir without its own answer for a missing node: the node is taken    *)
(* for one of the wrong kind.                                              *)
getDir_missingAsWrongKind(tree, path) ==
  LET node == getNode(tree, path)
  IN  IF IsErr(node) THEN node
      ELSE IF ~IsUndefined(node) /\ isDir(node) THEN node
      ELSE Err("is not a directory", path)

getDir(tree, path) ==
  LET node == getNode(tree, path)
  IN  IF IsErr(node) THEN node
      ELSE IF IsUndefined(node) THEN Err("does not exist", path)
      ELSE IF isDir(node) THEN node
      ELSE Err("is not a directory", path)

(***************************************************************************)
(* The methods of Disk.  Each takes the tree the disk holds when it is     *)
(* called and yields R(tree, out): the tree the disk holds when the method *)
(* returns or throws, and Ok(value) or the exception.  A method that       *)
(* assigns this.fsTree and throws afterwards yields the assigned tree.     *)
(***************************************************************************)
R(tree, out) == [tree |-> tree, out |-> out]

Void == <<>>

_createFile(tree, path, contents, force) ==
  IF isValidFilePath(path)
  THEN LET parentPath == getParentPath(path)
           parentNode == getDir(tree, parentPath)
       IN  IF IsErr(parentNode) THEN R(tree, parentNode)
           ELSE LET new == cloneDirWithModification(
                             tree, parentPath, ModPutFile(path, contents, force))
                IN  IF IsErr(new) THEN R(tree, new) ELSE R(new, Ok(Void))
  ELSE R(tree, Err("Invalid path", path))

RECURSIVE _createDir(_, _, _, _)
_createDir(tree, path, ignoreIfExists, parents) ==
  LET pathToParent  == getParentPath(path)
      newDirName    == getNodeName(path)
      parentOrEmpty == getNode(tree, pathToParent)
  IN
  IF IsErr(parentOrEmpty) THEN R(tree, parentOrEmpty)
  ELSE
    LET made == IF ~IsUndefined(parentOrEmpty) /\ isDir(parentOrEmpty)
                THEN R(tree, Ok(parentOrEmpty))
                ELSE IF parents
                THEN _createDir(tree, pathToParent, FALSE, TRUE)
                ELSE R(tree, Err("Invalid path", path))
    IN
    IF IsErr(made.out) THEN made
    ELSE
      LET parent       == made.out.val
          existingItem == find(parent.children, newDirName)
      IN
      IF ~IsUndefined(existingItem)
      THEN IF isFile(existingItem)
           THEN R(made.tree, Err("is already a file", path))
           ELSE IF ~ignoreIfExists
           THEN R(made.tree, Err("already exists", path))
           ELSE R(made.tree, Ok(existingItem))
      ELSE
        LET new == cloneDirWithModification(
                     made.tree, pathToParent,
                     ModAppend(DirNode(newDirName, <<>>)))
        IN  IF IsErr(new) THEN R(made.tree, new)
            ELSE LET node == getNode(new, path)
                 IN  IF IsErr(node) THEN R(new, node) ELSE R(new, Ok(node))

_remove(tree, path) ==
  LET node == getNode(tree, path)
  IN  IF IsErr(node) THEN R(tree, node)
      ELSE IF IsUndefined(node) THEN R(tree, Err("does not exist", path))
      ELSE LET new == cloneDirWithModification(
                        tree, getParentPath(path), ModRemove(getNodeName(path)))
           IN  IF IsErr(new) THEN R(tree, new) ELSE R(new, Ok(Void))

moveAndDeleteOriginal(tree, source, sourcePath, newName, destDirPath, deleteOriginal) ==
  LET treeNode == [source EXCEPT !.name = newName]
      new      == cloneDirWithModification(tree, destDirPath, ModAppend(treeNode))
  IN  IF IsErr(new) THEN R(tree, new)
      ELSE IF deleteOriginal THEN _remove(new, sourcePath)
      ELSE R(new, Ok(Void))

moveToDestParent(tree, source, sourcePath, destPath, deleteOriginal) ==
  LET destParentPath == getParentPath(destPath)
      destParent     == getNode(tree, destParentPath)
  IN  IF IsErr(destParent) THEN R(tree, destParent)
      ELSE IF ~IsUndefined(destParent)
      THEN moveAndDeleteOriginal(tree, source, sourcePath, getNodeName(destPath),
                                 getParentPath(destPath), deleteOriginal)
      ELSE R(tree, Err("does not exist", destParentPath))

_moveFile(tree, sourcePath, destPath, force, deleteOriginal) ==
  LET source == getNode(tree, sourcePath)
  IN
  IF IsErr(source) THEN R(tree, source)
  ELSE IF ~IsUndefined(source)
  THEN IF isFile(source)
       THEN LET dest == getNode(tree, destPath)
            IN
            IF IsErr(dest) THEN R(tree, dest)
            ELSE IF ~IsUndefined(dest)
            THEN IF isDir(dest)
                 THEN moveAndDeleteOriginal(tree, source, sourcePath, source.name,
                                            destPath, deleteOriginal)
                 ELSE IF force
                 THEN LET removed == _remove(tree, destPath)
                      IN  IF IsErr(removed.out) THEN removed
                          ELSE moveToDestParent(removed.tree, source, sourcePath,
                                                destPath, deleteOriginal)
                 ELSE R(tree, Err("already exists", destPath))
            ELSE moveToDestParent(tree, source, sourcePath, destPath, deleteOriginal)
       ELSE R(tree, Err("is a directory", sourcePath))
  ELSE R(tree, Err("does not exist", sourcePath))

_moveDir(tree, sourcePath, destPath, force, deleteOriginal) ==
  LET source == getNode(tree, sourcePath)
  IN
  IF IsErr(source) THEN R(tree, source)
  ELSE IF ~IsUndefined(source)
  THEN IF ~isChild(sourcePath, destPath)
       THEN IF isDir(source)
            THEN LET dest == getNode(tree, destPath)
                 IN
                 IF IsErr(dest) THEN R(tree, dest)
                 ELSE IF ~IsUndefined(dest)
                 THEN IF isDir(dest)
                      THEN moveAndDeleteOriginal(tree, source, sourcePath,
                                                 source.name, destPath,
                                                 deleteOriginal)
                      ELSE IF force
                      THEN LET removed == _remove(tree, destPath)
                           IN  IF IsErr(removed.out) THEN removed
                               ELSE moveToDestParent(removed.tree, source,
                                                     sourcePath, destPath,
                                                     deleteOriginal)
                      ELSE R(tree, Err("already exists", destPath))
                 ELSE moveToDestParent(tree, source, sourcePath, destPath,
                                       deleteOriginal)
            ELSE R(tree, Err("is a file", sourcePath))
       ELSE R(tree, Err("into itself", sourcePath))
  ELSE R(tree, Err("does not exist", sourcePath))

_readFile(tree, path) ==
  IF isValidFilePath(path)
  THEN LET node == getNode(tree, path)
       IN  IF IsErr(node) THEN R(tree, node)
           ELSE IF ~IsUndefined(node)
           THEN IF isFile(node) THEN R(tree, Ok(<<node.contents>>))
                ELSE R(tree, Err("is a directory", path))
           ELSE R(tree, Err("does not exist", path))
  ELSE R(tree, Err("Invalid filename", path))

(* The listing built from the last child to the first.                     *)
RECURSIVE childPaths_reversed(_, _)
childPaths_reversed(cs, path) ==
  IF cs = <<>> THEN <<>>
  ELSE childPaths_reversed(Tail(cs), path) \o <<path \o <<"/">> \o Head(cs).name>>

RECURSIVE childPaths(_, _)
childPaths(cs, path) ==
  IF cs = <<>> THEN <<>>
  ELSE <<path \o <<"/">> \o Head(cs).name>> \o childPaths(Tail(cs), path)

_readDir(tree, path) ==
  LET dir == getDir(tree, path)
  IN  IF IsErr(dir) THEN R(tree, dir)
      ELSE R(tree, Ok(childPaths(dir.children, path)))

RECURSIVE read(_, _)
read(cs, path) ==
  IF cs = <<>> THEN <<>>
  ELSE LET x         == Head(cs)
           childPath == path \o <<"/">> \o x.name
           inner     == IF isDir(x) THEN <<childPath>> \o read(x.children, childPath)
                        ELSE <<childPath>>
       IN  inner \o read(Tail(cs), path)

_readDirRecursive(tree, path) ==
  LET dir == getDir(tree, path)
  IN  IF IsErr(dir) THEN R(tree, dir)
      ELSE R(tree, Ok(read(dir.children, path)))

(* _removeFile without the test of the node's kind.                        *)
_removeFile_anyKind(tree, path, force) ==
  LET node == getNode(tree, path)
  IN  IF IsErr(node) THEN R(tree, node)
      ELSE IF ~IsUndefined(node)
      THEN LET new == cloneDirWithModification(
                        tree, getParentPath(path), ModRemove(getNodeName(path)))
           IN  IF IsErr(new) THEN R(tree, new) ELSE R(new, Ok(Void))
      ELSE IF force THEN R(tree, Ok(Void))
      ELSE R(tree, Err("does not exist", path))

_removeFile(tree, path, force) ==
  LET node == getNode(tree, path)
  IN  IF IsErr(node) THEN R(tree, node)
      ELSE IF ~IsUndefined(node)
      THEN IF isFile(node)
           THEN LET new == cloneDirWithModification(
                             tree, getParentPath(path), ModRemove(getNodeName(path)))
                IN  IF IsErr(new) THEN R(tree, new) ELSE R(new, Ok(Void))
           ELSE R(tree, Err("is a directory", path))
      ELSE IF force THEN R(tree, Ok(Void))
      ELSE R(tree, Err("does not exist", path))

(* _removeDir that does not look at force: a missing node is an error.     *)
_removeDir_forceIgnored(tree, path, force) ==
  LET node == getNode(tree, path)
  IN  IF IsErr(node) THEN R(tree, node)
      ELSE IF ~IsUndefined(node)
      THEN IF isDir(node)
           THEN LET new == cloneDirWithModification(
                             tree, getParentPath(path), ModRemove(getNodeName(path)))
                IN  IF IsErr(new) THEN R(tree, new) ELSE R(new, Ok(Void))
           ELSE R(tree, Err("is a file", path))
      ELSE R(tree, Err("does not exist", path))

_removeDir(tree, path, force) ==
  LET node == getNode(tree, path)
  IN  IF IsErr(node) THEN R(tree, node)
      ELSE IF ~IsUndefined(node)
      THEN IF isDir(node)
           THEN LET new == cloneDirWithModification(
                             tree, getParentPath(path), ModRemove(getNodeName(path)))
                IN  IF IsErr(new) THEN R(tree, new) ELSE R(new, Ok(Void))
           ELSE R(tree, Err("is a file", path))
      ELSE IF force THEN R(tree, Ok(Void))
      ELSE R(tree, Err("does not exist", path))

(* Disk.remove of disk.ts: the untyped remove with the force option.       *)
remove(tree, path, force) ==
  LET node == getNode(tree, path)
  IN  IF IsErr(node) THEN R(tree, node)
      ELSE IF ~IsUndefined(node)
      THEN LET new == cloneDirWithModification(
                        tree, getParentPath(path), ModRemove(getNodeName(path)))
           IN  IF IsErr(new) THEN R(tree, new) ELSE R(new, Ok(Void))
      ELSE IF force THEN R(tree, Ok(Void))
      ELSE R(tree, Err("does not exist", path))

(***************************************************************************)
(* The disk as a state machine: fsTree is Disk.fsTree.  Every method is    *)
(* async and has no await inside, so a call runs to its end in one step    *)
(* and leaves a settled promise: last is that call (its arguments, the     *)
(* tree it was called on, how it ended) until the caller has awaited it.   *)
(* The caller of the tests awaits each call before it makes the next.      *)
(* nops counts the calls made.                                             *)
(***************************************************************************)
InitialTree ==
  DirNode(<<>>,
    << DirNode(<<"a">>, << FileNode(<<"a">>, "c1"), DirNode(<<"d">>, <<>>) >>),
       DirNode(<<"b">>, << FileNode(<<"a">>, "c2") >>),
       FileNode(<<"x">>, "c2") >>)

Paths ==
  { <<"/">>,
    <<"/", "a">>,
    <<"/", "a", "/">>,
    <<"/", "a", "/", "a">>,
    <<"/", "a", "/", "d">>,
    <<"/", "a", "/", "q">>,
    <<"/", "a", "/", "q", "/", "r">>,
    <<"/", "b">>,
    <<"/", "a", "b">>,
    <<"/", "x">>,
    <<"/", "x", "/", "y">>,
    <<"/", "m", "/", "n">>,
    <<"/", "m", "/", "n", "/", "o">>,
    <<"x">> }

Contents == {"c3"}

(* The options objects createDir is called with; the first is the default  *)
(* used when the caller passes none.  A property left out is "undefined".  *)
DefaultCreateDirOptions == [ignoreIfExists |-> "false", parents |-> "true"]

CreateDirOptions ==
  { DefaultCreateDirOptions,
    [ignoreIfExists |-> "true",      parents |-> "undefined"],
    [ignoreIfExists |-> "undefined", parents |-> "true"],
    [ignoreIfExists |-> "true",      parents |-> "true"],
    [ignoreIfExists |-> "undefined", parents |-> "false"] }

OrFalse(v) == v = "true"

NoOptions == [ignoreIfExists |-> "undefined", parents |-> "undefined"]

NoCall ==
  [op |-> "none", path |-> <<>>, dest |-> <<>>, contents |-> "", force |-> FALSE,
   options |-> NoOptions, pre |-> <<>>, out |-> Ok(Void)]

(* The caller has awaited its previous call and makes another.             *)
Ready == last.op = "none" /\ nops < MaxOps

Call(op, path, dest, contents, force, options, r) ==
  /\ UNCHANGED <<heap, fsRoot, snapshot, resets, calls>>
  /\ nops' = nops + 1
  /\ fsTree' = r.tree
  /\ last' = [op |-> op, path |-> path, dest |-> dest, contents |-> contents,
              force |-> force, options |-> options, pre |-> fsTree, out |-> r.out]

(***************************************************************************)
(* The objects behind the tree.  heap is the sequence of the objects       *)
(* allocated so far and a reference is an index into it: a file object     *)
(* {name, contents}, a directory object {name, contents: <array>}, whose   *)
(* arr is the reference of its array, and an array of references.  Deref   *)
(* is the tree a reference shows.  Allocation appends; an object literal,  *)
(* map, filter and concat allocate, none of them writes to an object that  *)
(* exists.                                                                 *)
(***************************************************************************)
FileCell(n, c) == [name |-> n, contents |-> c]

DirCell(n, arr) == [name |-> n, arr |-> arr]

ArrCell(items) == [items |-> items]

H(h, id) == [heap |-> h, id |-> id]

Alloc(h, cell) == H(Append(h, cell), Len(h) + 1)

hIsDir(cell) == "arr" \in DOMAIN cell

RECURSIVE Deref(_, _), DerefAll(_, _)
Deref(h, id) ==
  IF hIsDir(h[id]) THEN DirNode(h[id].name, DerefAll(h, h[h[id].arr].items))
  ELSE FileNode(h[id].name, h[id].contents)

DerefAll(h, ids) ==
  IF ids = <<>> THEN <<>>
  ELSE <<Deref(h, Head(ids))>> \o DerefAll(h, Tail(ids))

(* The tree literal the caller builds and passes to the constructor.       *)
RECURSIVE StoreNode(_, _), StoreAll(_, _)
StoreNode(h, node) ==
  IF isDir(node)
  THEN LET cs  == StoreAll(h, node.children)
           arr == Alloc(cs.heap, ArrCell(cs.ids))
       IN  Alloc(arr.heap, DirCell(node.name, arr.id))
  ELSE Alloc(h, FileCell(node.name, node.contents))

StoreAll(h, nodes) ==
  IF nodes = <<>> THEN [heap |-> h, ids |-> <<>>]
  ELSE LET first == StoreNode(h, Head(nodes))
           rest  == StoreAll(first.heap, Tail(nodes))
       IN  [heap |-> rest.heap, ids |-> <<first.id>> \o rest.ids]

(* WebDisk.originalTree: the array of the top-level nodes.                 *)
OriginalHeap ==
  LET cs == StoreAll(<<>>, InitialTree.children)
  IN  Alloc(cs.heap, ArrCell(cs.ids))

originalTree == OriginalHeap.id

(* new Disk(this, { name: "", contents: this.originalTree })               *)
NewDisk(h) == Alloc(h, DirCell(InitialTree.name, originalTree))

(***************************************************************************)
(* The tree updates on the objects.  The lookups of a method read the     *)
(* tree that this.fsTree shows; what a method builds is allocated.  A     *)
(* result HR(heap, id, ok) is the heap after the step, the object the     *)
(* step yields (this.fsTree for a method) and whether it ended without an *)
(* exception; val is the object a method returns.                          *)
(***************************************************************************)
HR(h, id, ok) == [heap |-> h, id |-> id, ok |-> ok, val |-> 0]

HV(h, id, ok, val) == [heap |-> h, id |-> id, ok |-> ok, val |-> val]

contentsOf(h, dir) == h[h[dir].arr].items

RECURSIVE hFind(_, _, _)
hFind(h, ids, n) ==
  IF ids = <<>> THEN 0
  ELSE IF h[Head(ids)].name = n THEN Head(ids)
  ELSE hFind(h, Tail(ids), n)

RECURSIVE hLoop(_, _, _)
hLoop(h, id, parts) ==
  IF parts = <<>> THEN id
  ELSE hLoop(h, hFind(h, contentsOf(h, id), Head(parts)), Tail(parts))

(* The object getNode returns, for a path that getNode resolves.           *)
hGetNode(h, root, path) ==
  IF path = <<"/">> THEN root ELSE hLoop(h, root, Tail(toParts(path)))

RECURSIVE hKeep(_, _, _)
hKeep(h, ids, n) ==
  IF ids = <<>> THEN <<>>
  ELSE IF h[Head(ids)].name # n THEN <<Head(ids)>> \o hKeep(h, Tail(ids), n)
  ELSE hKeep(h, Tail(ids), n)

(* The items removed from the array itself, as splice does.                *)
hFilter_splice(h, arr, n) ==
  H([h EXCEPT ![arr].items = hKeep(h, h[arr].items, n)], arr)

(* Array.prototype.filter: a new array.                                    *)
hFilter(h, arr, n) == Alloc(h, ArrCell(hKeep(h, h[arr].items, n)))

(* The item added to the array itself, as push does.                       *)
hConcat_push(h, arr, id) ==
  H([h EXCEPT ![arr].items = Append(h[arr].items, id)], arr)

(* Array.prototype.concat: a new array.                                    *)
hConcat(h, arr, id) == Alloc(h, ArrCell(Append(h[arr].items, id)))

ModAppendNewDir(n) == [m |-> "appendNewDir", name |-> n]

ModAppendRef(id) == [m |-> "appendRef", ref |-> id]

(* { name, contents: <the array arr.id> } as the result of a step.         *)
NewDir(arr, n) == HR(Append(arr.heap, DirCell(n, arr.id)), Len(arr.heap) + 1, TRUE)

(* array.concat({ ...cell }): the object literal, then the new array.      *)
hConcatCell(arr, cell) ==
  hConcat(Append(arr.heap, cell), arr.id, Len(arr.heap) + 1)

(* { name: n, contents: [] }                                               *)
hEmptyDir(h, n) == Alloc(Append(h, ArrCell(<<>>)), DirCell(n, Len(h) + 1))

hConcatObject(obj, arr) == hConcat(obj.heap, arr, obj.id)

hFnModify(h, mod, dir) ==
  IF mod.m = "putFile" THEN
    IF hFind(h, contentsOf(h, dir), getFilename(mod.path)) = 0 \/ mod.force
    THEN NewDir(hConcatCell(hFilter(h, h[dir].arr, getFilename(mod.path)),
                            FileCell(getFilename(mod.path), mod.contents)),
                h[dir].name)
    ELSE HR(h, dir, FALSE)
  ELSE IF mod.m = "appendNewDir" THEN
    NewDir(hConcatObject(hEmptyDir(h, mod.name), h[dir].arr), h[dir].name)
  ELSE IF mod.m = "appendRef" THEN
    NewDir(hConcat(h, h[dir].arr, mod.ref), h[dir].name)
  ELSE
    NewDir(hFilter(h, h[dir].arr, mod.name), h[dir].name)

(* { name: tree.name, contents: <the mapped array> }, unless a callback of *)
(* the map threw.                                                          *)
hMappedDir(mapped, tree, n) ==
  IF ~mapped.ok THEN HR(mapped.heap, tree, FALSE)
  ELSE NewDir(Alloc(mapped.heap, ArrCell(mapped.ids)), n)

hCons(id, rest) ==
  [heap |-> rest.heap, ids |-> <<id>> \o rest.ids, ok |-> rest.ok]

RECURSIVE hDoCloneDirWithModification(_, _, _, _), hMap(_, _, _, _),
          hMapItem(_, _, _, _), hMapRest(_, _, _, _)
hDoCloneDirWithModification(h, tree, path, mod) ==
  IF Len(path) = 1 THEN hFnModify(h, mod, tree)
  ELSE hMappedDir(hMap(h, contentsOf(h, tree), path, mod), tree, h[tree].name)

(* tree.contents.map(item => ...): a new array of the callback's results.  *)
hMap(h, ids, path, mod) ==
  IF ids = <<>> THEN [heap |-> h, ids |-> <<>>, ok |-> TRUE]
  ELSE hMapRest(hMapItem(h, Head(ids), path, mod), Tail(ids), path, mod)

hMapItem(h, item, path, mod) ==
  IF h[item].name # path[2] THEN HR(h, item, TRUE)
  ELSE IF hIsDir(h[item])
  THEN hDoCloneDirWithModification(h, item, Tail(path), mod)
  ELSE HR(h, item, FALSE)

hMapRest(new, ids, path, mod) ==
  IF ~new.ok THEN [heap |-> new.heap, ids |-> <<>>, ok |-> FALSE]
  ELSE hCons(new.id, hMap(new.heap, ids, path, mod))

hCloneDirWithModification(h, tree, path, mod) ==
  hDoCloneDirWithModification(h, tree, toParts(path), mod)

(* this.fsTree = new: the assignment does not happen when the right-hand   *)
(* side threw.                                                             *)
hAssign(new, root) == IF new.ok THEN new ELSE HR(new.heap, root, FALSE)

hUpdate(h, root, path, mod) ==
  hAssign(hCloneDirWithModification(h, root, path, mod), root)

hCreateFile(h, root, path, contents, force) ==
  IF isValidFilePath(path)
  THEN IF IsErr(getDir(Deref(h, root), getParentPath(path)))
       THEN HR(h, root, FALSE)
       ELSE hUpdate(h, root, getParentPath(path),
                    ModPutFile(path, contents, force))
  ELSE HR(h, root, FALSE)

(* return this.getNode(path) after the update of _createDir.               *)
hReturnNode(new, path) ==
  IF ~new.ok THEN new
  ELSE IF IsErr(getNode(Deref(new.heap, new.id), path))
  THEN HR(new.heap, new.id, FALSE)
  ELSE IF IsUndefined(getNode(Deref(new.heap, new.id), path))
  THEN HV(new.heap, new.id, TRUE, 0)
  ELSE HV(new.heap, new.id, TRUE, hGetNode(new.heap, new.id, path))

(* _createDir from the point where it holds the parent (made.val).         *)
hCreateDirIn(made, existingItem, path, ignoreIfExists) ==
  IF existingItem # 0
  THEN IF ~hIsDir(made.heap[existingItem])
       THEN HR(made.heap, made.id, FALSE)
       ELSE IF ~ignoreIfExists
       THEN HR(made.heap, made.id, FALSE)
       ELSE HV(made.heap, made.id, TRUE, existingItem)
  ELSE hReturnNode(hUpdate(made.heap, made.id, getParentPath(path),
                           ModAppendNewDir(getNodeName(path))),
                   path)

hWithParent(made, path, ignoreIfExists) ==
  IF ~made.ok THEN made
  ELSE hCreateDirIn(made,
                    hFind(made.heap, contentsOf(made.heap, made.val),
                          getNodeName(path)),
                    path, ignoreIfExists)

RECURSIVE hCreateDir(_, _, _, _, _)
hCreateDir(h, root, path, ignoreIfExists, parents) ==
  LET pathToParent  == getParentPath(path)
      parentOrEmpty == getNode(Deref(h, root), pathToParent)
  IN
  IF IsErr(parentOrEmpty) THEN HR(h, root, FALSE)
  ELSE hWithParent(
         IF ~IsUndefined(parentOrEmpty) /\ isDir(parentOrEmpty)
         THEN HV(h, root, TRUE, hGetNode(h, root, pathToParent))
         ELSE IF parents
         THEN hCreateDir(h, root, pathToParent, FALSE, TRUE)
         ELSE HR(h, root, FALSE),
         path, ignoreIfExists)

h_remove(h, root, path) ==
  LET node == getNode(Deref(h, root), path)
  IN  IF IsErr(node) \/ IsUndefined(node) THEN HR(h, root, FALSE)
      ELSE hUpdate(h, root, getParentPath(path), ModRemove(getNodeName(path)))

(* The source object itself given the new name.                            *)
hRenamed_inPlace(h, source, newName) ==
  H([h EXCEPT ![source].name = newName], source)

(* { ...source, name: newName }: a new object with the source's contents.  *)
hRenamed(h, source, newName) ==
  Alloc(h, [h[source] EXCEPT !.name = newName])

hAppendObject(treeNode, root, destDirPath) ==
  hUpdate(treeNode.heap, root, destDirPath, ModAppendRef(treeNode.id))

(* if (deleteOriginal) this._remove(sourcePath)                            *)
hDeleteOriginal(new, sourcePath, deleteOriginal) ==
  IF ~new.ok THEN new
  ELSE IF deleteOriginal THEN h_remove(new.heap, new.id, sourcePath)
  ELSE new

hMoveAndDeleteOriginal(h, root, source, sourcePath, newName, destDirPath, deleteOriginal) ==
  hDeleteOriginal(hAppendObject(hRenamed(h, source, newName), root, destDirPath),
                  sourcePath, deleteOriginal)

hMoveToDestParent(h, root, source, sourcePath, destPath, deleteOriginal) ==
  LET destParent == getNode(Deref(h, root), getParentPath(destPath))
  IN  IF IsErr(destParent) THEN HR(h, root, FALSE)
      ELSE IF ~IsUndefined(destParent)
      THEN hMoveAndDeleteOriginal(h, root, source, sourcePath,
                                  getNodeName(destPath), getParentPath(destPath),
                                  deleteOriginal)
      ELSE HR(h, root, FALSE)

(* self._remove(destPath); self.moveToDestParent(...)                      *)
hAfterRemove(removed, source, sourcePath, destPath, deleteOriginal) ==
  IF ~removed.ok THEN removed
  ELSE hMoveToDestParent(removed.heap, removed.id, source, sourcePath, destPath,
                         deleteOriginal)

(* _moveFile (wantDir FALSE) and _moveDir (wantDir TRUE) once the source   *)
(* is found to be of the kind wanted.                                      *)
hMoveSource(h, root, source, sourcePath, destPath, force, deleteOriginal) ==
  LET dest == getNode(Deref(h, root), destPath)
  IN  IF IsErr(dest) THEN HR(h, root, FALSE)
      ELSE IF ~IsUndefined(dest)
      THEN IF isDir(dest)
           THEN hMoveAndDeleteOriginal(h, root, source, sourcePath,
                                       h[source].name, destPath, deleteOriginal)
           ELSE IF force
           THEN hAfterRemove(h_remove(h, root, destPath), source, sourcePath,
                             destPath, deleteOriginal)
           ELSE HR(h, root, FALSE)
      ELSE hMoveToDestParent(h, root, source, sourcePath, destPath,
                             deleteOriginal)

(* _moveFile and _moveDir, which differ in the kind of source they take    *)
(* and in _moveDir's isChild test.                                         *)
hMove(h, root, sourcePath, destPath, force, deleteOriginal, wantDir) ==
  LET source == getNode(Deref(h, root), sourcePath)
  IN  IF IsErr(source) \/ IsUndefined(source) THEN HR(h, root, FALSE)
      ELSE IF wantDir /\ isChild(sourcePath, destPath) THEN HR(h, root, FALSE)
      ELSE IF isDir(source) # wantDir THEN HR(h, root, FALSE)
      ELSE hMoveSource(h, root, hGetNode(h, root, sourcePath), sourcePath,
                       destPath, force, deleteOriginal)

(* _removeFile (wantDir FALSE), _removeDir (wantDir TRUE) and remove of    *)
(* disk.ts (anyKind): a missing node is no error under force.              *)
hRemove(h, root, path, force, wantDir, anyKind) ==
  LET node == getNode(Deref(h, root), path)
  IN  IF IsErr(node) THEN HR(h, root, FALSE)
      ELSE IF ~IsUndefined(node)
      THEN IF anyKind \/ isDir(node) = wantDir
           THEN hUpdate(h, root, getParentPath(path),
                        ModRemove(getNodeName(path)))
           ELSE HR(h, root, FALSE)
      ELSE HR(h, root, force)

NoSnapshot == [ref |-> 0, was |-> <<>>]

Init ==
  /\ fsTree = InitialTree
  /\ nops = 0
  /\ last = NoCall
  /\ heap = NewDisk(OriginalHeap.heap).heap
  /\ fsRoot = NewDisk(OriginalHeap.heap).id
  /\ snapshot = NoSnapshot
  /\ resets = 0
  /\ calls = <<>>

createFile ==
  /\ Ready
  /\ \E path \in Paths, contents \in Contents, force \in BOOLEAN :
       Call("createFile", path, <<>>, contents, force, NoOptions,
            _createFile(fsTree, path, contents, force))

createDir ==
  /\ Ready
  /\ \E path \in Paths, options \in CreateDirOptions :
       Call("createDir", path, <<>>, "", FALSE, options,
            LET r == _createDir(fsTree, path, OrFalse(options.ignoreIfExists),
                                OrFalse(options.parents))
            IN  IF IsErr(r.out) THEN r ELSE R(r.tree, Ok(Void)))

moveFile ==
  /\ Ready
  /\ \E sourcePath \in Paths, destPath \in Paths, force \in BOOLEAN :
       Call("moveFile", sourcePath, destPath, "", force, NoOptions,
            _moveFile(fsTree, sourcePath, destPath, force, TRUE))

moveDir ==
  /\ Ready
  /\ \E sourcePath \in Paths, destPath \in Paths, force \in BOOLEAN :
       Call("moveDir", sourcePath, destPath, "", force, NoOptions,
            _moveDir(fsTree, sourcePath, destPath, force, TRUE))

copyFile ==
  /\ Ready
  /\ \E sourcePath \in Paths, destPath \in Paths, force \in BOOLEAN :
       Call("copyFile", sourcePath, destPath, "", force, NoOptions,
            _moveFile(fsTree, sourcePath, destPath, force, FALSE))

copyDir ==
  /\ Ready
  /\ \E sourcePath \in Paths, destPath \in Paths, force \in BOOLEAN :
       Call("copyDir", sourcePath, destPath, "", force, NoOptions,
            _moveDir(fsTree, sourcePath, destPath, force, FALSE))

readFile ==
  /\ Ready
  /\ \E path \in Paths :
       Call("readFile", path, <<>>, "", FALSE, NoOptions, _readFile(fsTree, path))

readDir ==
  /\ Ready
  /\ \E path \in Paths :
       Call("readDir", path, <<>>, "", FALSE, NoOptions, _readDir(fsTree, path))

readDirRecursive ==
  /\ Ready
  /\ \E path \in Paths :
       Call("readDirRecursive", path, <<>>, "", FALSE, NoOptions,
            _readDirRecursive(fsTree, path))

removeFile ==
  /\ Ready
  /\ \E path \in Paths, force \in BOOLEAN :
       Call("removeFile", path, <<>>, "", force, NoOptions,
            _removeFile(fsTree, path, force))

removeDir ==
  /\ Ready
  /\ \E path \in Paths, force \in BOOLEAN :
       Call("removeDir", path, <<>>, "", force, NoOptions,
            _removeDir(fsTree, path, force))

removeAny ==
  /\ Ready
  /\ \E path \in Paths, force \in BOOLEAN :
       Call("remove", path, <<>>, "", force, NoOptions, remove(fsTree, path, force))

await ==
  /\ last.op # "none"
  /\ last' = NoCall
  /\ UNCHANGED <<fsTree, nops, heap, fsRoot, snapshot, resets, calls>>

Next ==
  \/ createFile
  \/ createDir
  \/ moveFile
  \/ moveDir
  \/ copyFile
  \/ copyDir
  \/ readFile
  \/ readDir
  \/ readDirRecursive
  \/ removeFile
  \/ removeDir
  \/ removeAny
  \/ await

Spec == Init /\ [][Next]_vars

(***************************************************************************)
(* The disk with its objects.  A mutating method acts on the objects of   *)
(* heap, fsRoot being this.fsTree; fsTree and last are the tree and the    *)
(* call as in Spec.  __data hands this.fsTree to the caller, who keeps it: *)
(* snapshot is that reference and the tree it showed then.  __reset is     *)
(* WebDisk.__reset() followed by open(): a new Disk on originalTree.       *)
(***************************************************************************)
MaxResets == 1

(* The paths the calls on the objects are made with.                       *)
ObjPaths ==
  { <<"/">>,
    <<"/", "a">>,
    <<"/", "a", "/", "a">>,
    <<"/", "a", "/", "q">>,
    <<"/", "x">>,
    <<"/", "m", "/", "n">> }

ObjCall(op, path, dest, contents, force, options, r, hr) ==
  /\ nops' = nops + 1
  /\ fsTree' = r.tree
  /\ last' = [op |-> op, path |-> path, dest |-> dest, contents |-> contents,
              force |-> force, options |-> options, pre |-> fsTree, out |-> r.out]
  /\ heap' = hr.heap
  /\ fsRoot' = hr.id
  /\ UNCHANGED <<snapshot, resets, calls>>

createFile_objects ==
  /\ Ready
  /\ \E path \in ObjPaths, contents \in Contents, force \in BOOLEAN :
       ObjCall("createFile", path, <<>>, contents, force, NoOptions,
               _createFile(fsTree, path, contents, force),
               hCreateFile(heap, fsRoot, path, contents, force))

createDir_objects ==
  /\ Ready
  /\ \E path \in ObjPaths, options \in CreateDirOptions :
       ObjCall("createDir", path, <<>>, "", FALSE, options,
               LET r == _createDir(fsTree, path, OrFalse(options.ignoreIfExists),
                                   OrFalse(options.parents))
               IN  IF IsErr(r.out) THEN r ELSE R(r.tree, Ok(Void)),
               hCreateDir(heap, fsRoot, path, OrFalse(options.ignoreIfExists),
                          OrFalse(options.parents)))

moveFile_objects ==
  /\ Ready
  /\ \E sourcePath \in ObjPaths, destPath \in ObjPaths, force \in BOOLEAN :
       ObjCall("moveFile", sourcePath, destPath, "", force, NoOptions,
               _moveFile(fsTree, sourcePath, destPath, force, TRUE),
               hMove(heap, fsRoot, sourcePath, destPath, force, TRUE, FALSE))

moveDir_objects ==
  /\ Ready
  /\ \E sourcePath \in ObjPaths, destPath \in ObjPaths, force \in BOOLEAN :
       ObjCall("moveDir", sourcePath, destPath, "", force, NoOptions,
               _moveDir(fsTree, sourcePath, destPath, force, TRUE),
               hMove(heap, fsRoot, sourcePath, destPath, force, TRUE, TRUE))

copyFile_objects ==
  /\ Ready
  /\ \E sourcePath \in ObjPaths, destPath \in ObjPaths, force \in BOOLEAN :
       ObjCall("copyFile", sourcePath, destPath, "", force, NoOptions,
               _moveFile(fsTree, sourcePath, destPath, force, FALSE),
               hMove(heap, fsRoot, sourcePath, destPath, force, FALSE, FALSE))

copyDir_objects ==
  /\ Ready
  /\ \E sourcePath \in ObjPaths, destPath \in ObjPaths, force \in BOOLEAN :
       ObjCall("copyDir", sourcePath, destPath, "", force, NoOptions,
               _moveDir(fsTree, sourcePath, destPath, force, FALSE),
               hMove(heap, fsRoot, sourcePath, destPath, force, FALSE, TRUE))

removeFile_objects ==
  /\ Ready
  /\ \E path \in ObjPaths, force \in BOOLEAN :
       ObjCall("removeFile", path, <<>>, "", force, NoOptions,
               _removeFile(fsTree, path, force),
               hRemove(heap, fsRoot, path, force, FALSE, FALSE))

removeDir_objects ==
  /\ Ready
  /\ \E path \in ObjPaths, force \in BOOLEAN :
       ObjCall("removeDir", path, <<>>, "", force, NoOptions,
               _removeDir(fsTree, path, force),
               hRemove(heap, fsRoot, path, force, TRUE, FALSE))

removeAny_objects ==
  /\ Ready
  /\ \E path \in ObjPaths, force \in BOOLEAN :
       ObjCall("remove", path, <<>>, "", force, NoOptions,
               remove(fsTree, path, force),
               hRemove(heap, fsRoot, path, force, FALSE, TRUE))

__data ==
  /\ last.op = "none"
  /\ snapshot = NoSnapshot
  /\ snapshot' = [ref |-> fsRoot, was |-> Deref(heap, fsRoot)]
  /\ UNCHANGED <<fsTree, last, nops, heap, fsRoot, resets, calls>>

__reset ==
  /\ last.op = "none"
  /\ resets < MaxResets
  /\ resets' = resets + 1
  /\ heap' = NewDisk(heap).heap
  /\ fsRoot' = NewDisk(heap).id
  /\ fsTree' = Deref(heap', fsRoot')
  /\ last' = [NoCall EXCEPT !.op = "__reset", !.pre = fsTree]
  /\ UNCHANGED <<nops, snapshot, calls>>

NextObjects ==
  \/ createFile_objects
  \/ createDir_objects
  \/ moveFile_objects
  \/ moveDir_objects
  \/ copyFile_objects
  \/ copyDir_objects
  \/ removeFile_objects
  \/ removeDir_objects
  \/ removeAny_objects
  \/ __data
  \/ __reset
  \/ await

SpecObjects == Init /\ [][NextObjects]_vars

(***************************************************************************)
(* Calls that overlap: the caller makes its calls without awaiting the    *)
(* promise of one before it makes the next.  A method body runs from the   *)
(* call to its first await or to its end before anything else runs; a     *)
(* body that has reached an await is resumed later, other bodies running   *)
(* in between.  calls is the log of the calls made: the arguments, the     *)
(* tree at the call (pre), where the body stands (pc: "inserted" after the *)
(* first tree update of moveAndDeleteOriginal, "done" at its end), the     *)
(* tree when the body ended (post), how it ended (out), and the calls      *)
(* whose body stood between its two updates when this one was made         *)
(* (during).                                                               *)
(***************************************************************************)
AsyncPaths ==
  { <<"/", "a">>,
    <<"/", "a", "/", "a">>,
    <<"/", "a", "/", "q">>,
    <<"/", "b">>,
    <<"/", "x">> }

(* The points of the method bodies that are followed by an await: the      *)
(* methods of Disk hold none.                                              *)
AwaitPoints == {}

yieldsAfter_inserted(pc) == pc = "inserted"

yieldsAfter(pc) == pc \in AwaitPoints

Between == {i \in 1..Len(calls) : calls[i].pc = "inserted"}

(* No body is in the middle of a run: every body has ended or stands at an *)
(* await.                                                                  *)
Idle == \A i \in Between : yieldsAfter(calls[i].pc)

Entry(op, path, dest, contents, force, options, pc, r) ==
  [op |-> op, path |-> path, dest |-> dest, contents |-> contents,
   force |-> force, options |-> options, pre |-> fsTree, pc |-> pc,
   post |-> r.tree, out |-> r.out, during |-> Between]

(* A call whose body runs to its end.                                      *)
AsyncCall(op, path, dest, contents, force, options, r) ==
  /\ nops' = nops + 1
  /\ fsTree' = r.tree
  /\ calls' = Append(calls, Entry(op, path, dest, contents, force, options,
                                  "done", r))
  /\ UNCHANGED <<last, heap, fsRoot, snapshot, resets>>

(* A move up to the first update of moveAndDeleteOriginal: r is the method *)
(* without the removal of the source, which is what is left of the body.   *)
AsyncMove(op, sourcePath, destPath, force, r) ==
  /\ nops' = nops + 1
  /\ fsTree' = r.tree
  /\ calls' = Append(calls, Entry(op, sourcePath, destPath, "", force, NoOptions,
                                  IF IsErr(r.out) THEN "done" ELSE "inserted", r))
  /\ UNCHANGED <<last, heap, fsRoot, snapshot, resets>>

CanCall == Idle /\ nops < MaxOps

createFile_async ==
  /\ CanCall
  /\ \E path \in AsyncPaths, contents \in Contents, force \in BOOLEAN :
       AsyncCall("createFile", path, <<>>, contents, force, NoOptions,
                 _createFile(fsTree, path, contents, force))

createDir_async ==
  /\ CanCall
  /\ \E path \in AsyncPaths, options \in CreateDirOptions :
       AsyncCall("createDir", path, <<>>, "", FALSE, options,
                 LET r == _createDir(fsTree, path, OrFalse(options.ignoreIfExists),
                                     OrFalse(options.parents))
                 IN  IF IsErr(r.out) THEN r ELSE R(r.tree, Ok(Void)))

moveFile_insert ==
  /\ CanCall
  /\ \E sourcePath \in AsyncPaths, destPath \in AsyncPaths, force \in BOOLEAN :
       AsyncMove("moveFile", sourcePath, destPath, force,
                 _moveFile(fsTree, sourcePath, destPath, force, FALSE))

moveDir_insert ==
  /\ CanCall
  /\ \E sourcePath \in AsyncPaths, destPath \in AsyncPaths, force \in BOOLEAN :
       AsyncMove("moveDir", sourcePath, destPath, force,
                 _moveDir(fsTree, sourcePath, destPath, force, FALSE))

(* if (deleteOriginal) this._remove(sourcePath): the rest of a move's body, *)
(* run at once when the body has not yielded, and among the other bodies    *)
(* when it has.                                                            *)
move_remove ==
  \E i \in Between :
    /\ Idle \/ ~yieldsAfter(calls[i].pc)
    /\ LET r == _remove(fsTree, calls[i].path)
       IN  /\ fsTree' = r.tree
           /\ calls' = [calls EXCEPT ![i].pc = "done", ![i].post = r.tree,
                                     ![i].out = r.out]
    /\ UNCHANGED <<last, nops, heap, fsRoot, snapshot, resets>>

copyFile_async ==
  /\ CanCall
  /\ \E sourcePath \in AsyncPaths, destPath \in AsyncPaths, force \in BOOLEAN :
       AsyncCall("copyFile", sourcePath, destPath, "", force, NoOptions,
                 _moveFile(fsTree, sourcePath, destPath, force, FALSE))

copyDir_async ==
  /\ CanCall
  /\ \E sourcePath \in AsyncPaths, destPath \in AsyncPaths, force \in BOOLEAN :
       AsyncCall("copyDir", sourcePath, destPath, "", force, NoOptions,
                 _moveDir(fsTree, sourcePath, destPath, force, FALSE))

readFile_async ==
  /\ CanCall
  /\ \E path \in AsyncPaths :
       AsyncCall("readFile", path, <<>>, "", FALSE, NoOptions,
                 _readFile(fsTree, path))

readDir_async ==
  /\ CanCall
  /\ \E path \in AsyncPaths :
       AsyncCall("readDir", path, <<>>, "", FALSE, NoOptions,
                 _readDir(fsTree, path))

readDirRecursive_async ==
  /\ CanCall
  /\ \E path \in AsyncPaths :
       AsyncCall("readDirRecursive", path, <<>>, "", FALSE, NoOptions,
                 _readDirRecursive(fsTree, path))

removeFile_async ==
  /\ CanCall
  /\ \E path \in AsyncPaths, force \in BOOLEAN :
       AsyncCall("removeFile", path, <<>>, "", force, NoOptions,
                 _removeFile(fsTree, path, force))

removeDir_async ==
  /\ CanCall
  /\ \E path \in AsyncPaths, force \in BOOLEAN :
       AsyncCall("removeDir", path, <<>>, "", force, NoOptions,
                 _removeDir(fsTree, path, force))

removeAny_async ==
  /\ CanCall
  /\ \E path \in AsyncPaths, force \in BOOLEAN :
       AsyncCall("remove", path, <<>>, "", force, NoOptions,
                 remove(fsTree, path, force))

NextAsync ==
  \/ createFile_async
  \/ createDir_async
  \/ moveFile_insert
  \/ moveDir_insert
  \/ move_remove
  \/ copyFile_async
  \/ copyDir_async
  \/ readFile_async
  \/ readDir_async
  \/ readDirRecursive_async
  \/ removeFile_async
  \/ removeDir_async
  \/ removeAny_async

SpecAsync == Init /\ [][NextAsync]_vars

(***************************************************************************)
(* Vocabulary of the properties.                                           *)
(***************************************************************************)
Mutators ==
  {"createFile", "createDir", "removeFile", "removeDir", "remove",
   "moveFile", "moveDir", "copyFile", "copyDir"}

Moves == {"moveFile", "moveDir"}

Copies == {"copyFile", "copyDir"}

Succeeded == last.op # "none" /\ last.out.ok

Failed == last.op # "none" /\ ~last.out.ok

FailedWith(kind, path) == Failed /\ last.out.err = kind /\ last.out.path = path

Resolves(tree, path) ==
  LET node == getNode(tree, path) IN ~IsErr(node) /\ ~IsUndefined(node)

Absent(tree, path) == IsUndefined(getNode(tree, path))

ResolvesToFile(tree, path) == Resolves(tree, path) /\ isFile(getNode(tree, path))

ResolvesToDir(tree, path) == Resolves(tree, path) /\ isDir(getNode(tree, path))

(* The node a move or copy call accepts as its source: moveFile and        *)
(* copyFile take a file, moveDir and copyDir a directory.                  *)
SourceAccepted ==
  IF last.op \in {"moveFile", "copyFile"} THEN ResolvesToFile(last.pre, last.path)
  ELSE ResolvesToDir(last.pre, last.path)

SamePayload(n, m) ==
  /\ isDir(n) = isDir(m)
  /\ IF isDir(n) THEN n.children = m.children ELSE n.contents = m.contents

IsPrefix(s, t) == Len(s) <= Len(t) /\ SubSeq(t, 1, Len(s)) = s

(* The segments a path names below the root, as the lookup walks them.     *)
Segments(path) == Tail(toParts(path))

(* dest names the source's own place or a place inside the source.         *)
SelfMove(src, dest) == IsPrefix(Segments(src), Segments(dest))

IsAbsolute(path) == Len(path) > 0 /\ Head(path) = "/"

(* The child a directory lookup finds under a name: the node a path to it  *)
(* resolves to.                                                            *)
ChildAt(tree, dirPath, n) == find(getNode(tree, dirPath).children, n)

RECURSIVE UniqueNames(_)
UniqueNames(node) ==
  \/ isFile(node)
  \/ /\ \A i, j \in 1..Len(node.children) :
          i # j => node.children[i].name # node.children[j].name
     /\ \A i \in 1..Len(node.children) : UniqueNames(node.children[i])

ChildNames(dir) == {dir.children[i].name : i \in 1..Len(dir.children)}

ChildrenNamed(dir, n) == {i \in 1..Len(dir.children) : dir.children[i].name = n}

(***************************************************************************)
(* C1: a successful createFile, createDir, remove, move or copy made on a  *)
(* tree whose sibling names are unique leaves a tree in which every        *)
(* directory has pairwise distinct child names.                            *)
(***************************************************************************)
C1_SiblingNamesStayUnique ==
  (Succeeded /\ last.op \in Mutators /\ UniqueNames(last.pre))
    => UniqueNames(fsTree)

(***************************************************************************)
(* C2: a call that raises a failure leaves the tree of the disk equal to   *)
(* the tree it was called on.                                              *)
(***************************************************************************)
C2_FailureLeavesTreeUnchanged == Failed => fsTree = last.pre

(***************************************************************************)
(* C3: round trip.  When createFile(p, c) has succeeded, a readFile(p)     *)
(* made next returns exactly c.                                            *)
(***************************************************************************)
C3_CreateThenReadRoundTrip ==
  (last.op = "createFile" /\ last.out.ok)
    => _readFile(fsTree, last.path).out = Ok(<<last.contents>>)

(***************************************************************************)
(* C4: createFile(p, c) when a node named p's leaf exists in p's parent    *)
(* directory: without force it fails with "already exists" and the         *)
(* existing node keeps its contents; with force, when that node is a file, *)
(* it succeeds and the file at p holds c.                                  *)
(***************************************************************************)
C4_CreateFileOnExistingNode ==
  LET p        == last.path
      parent   == getParentPath(p)
      leaf     == getNodeName(p)
      existing == ChildAt(last.pre, parent, leaf)
  IN  ( /\ last.op = "createFile"
        /\ isValidFilePath(p)
        /\ ResolvesToDir(last.pre, parent)
        /\ ~IsUndefined(existing) )
      => /\ ~last.force =>
              /\ FailedWith("already exists", p)
              /\ ChildAt(fsTree, parent, leaf) = existing
         /\ (last.force /\ isFile(existing)) =>
              /\ Succeeded
              /\ ChildAt(fsTree, parent, leaf) = FileNode(leaf, last.contents)

(***************************************************************************)
(* C5: when moveFile/moveDir(src, dest) has succeeded and dest resolved to *)
(* an existing directory, dest has a child named after src's leaf name     *)
(* with the source's contents or children, src no longer resolves, and     *)
(* every other child of dest is still there.  Stated for absolute paths.   *)
(***************************************************************************)
C5_MoveIntoDirectory ==
  LET src  == getNode(last.pre, last.path)
      leaf == getNodeName(last.path)
  IN  ( /\ last.op \in Moves
        /\ Succeeded
        /\ IsAbsolute(last.path) /\ IsAbsolute(last.dest)
        /\ ResolvesToDir(last.pre, last.dest) )
      => /\ ResolvesToDir(fsTree, last.dest)
         /\ \E i \in ChildrenNamed(getNode(fsTree, last.dest), leaf) :
              SamePayload(getNode(fsTree, last.dest).children[i], src)
         /\ ~Resolves(fsTree, last.path)
         /\ (ChildNames(getNode(last.pre, last.dest)) \ {leaf})
              \subseteq ChildNames(getNode(fsTree, last.dest))

(***************************************************************************)
(* C6: rename via move.  moveFile/moveDir(src, dest) of an accepted source *)
(* to a dest that does not exist and is not inside src: if dest's parent   *)
(* directory exists the call succeeds, src no longer resolves and dest     *)
(* names a node with dest's leaf name and the source's contents or         *)
(* children; if dest's parent does not exist the call fails with "does not *)
(* exist".  Stated for absolute paths.                                     *)
(***************************************************************************)
C6_RenameViaMove ==
  LET src    == getNode(last.pre, last.path)
      parent == getParentPath(last.dest)
      leaf   == getNodeName(last.dest)
  IN  ( /\ last.op \in Moves
        /\ IsAbsolute(last.path) /\ IsAbsolute(last.dest)
        /\ SourceAccepted
        /\ ~SelfMove(last.path, last.dest)
        /\ Absent(last.pre, last.dest) )
      => /\ ResolvesToDir(last.pre, parent) =>
              /\ Succeeded
              /\ ~Resolves(fsTree, last.path)
              /\ ResolvesToDir(fsTree, parent)
              /\ ~IsUndefined(ChildAt(fsTree, parent, leaf))
              /\ SamePayload(ChildAt(fsTree, parent, leaf), src)
         /\ Absent(last.pre, parent) =>
              /\ FailedWith("does not exist", parent)
              /\ fsTree = last.pre

(***************************************************************************)
(* C7: a moveFile of a file or moveDir of a directory whose destination    *)
(* path equals its source path                                             *)
(* fails as a self-move ("Cannot copy path ... into itself") and leaves    *)
(* the tree unchanged, the node still at the source path.                  *)
(***************************************************************************)
C7_MoveOntoItselfRejected ==
  ( /\ last.op \in Moves
    /\ SourceAccepted
    /\ last.dest = last.path )
  => /\ FailedWith("into itself", last.path)
     /\ fsTree = last.pre
     /\ Resolves(fsTree, last.path)

(***************************************************************************)
(* C8: moveDir(src, dest) of a path that resolves is rejected as a         *)
(* self-move ("Cannot copy path <src> into itself.") with the tree         *)
(* unchanged when dest is a strict descendant of src at a path-segment     *)
(* boundary, and is not rejected as a self-move when dest only has src as  *)
(* a raw string prefix.                                                    *)
(***************************************************************************)
StrictDescendantPath(dest, src) ==
  IsPrefix(toParts(src), toParts(dest)) /\ toParts(src) # toParts(dest)

RawPrefixOnly(dest, src) ==
  startsWith(dest, src) /\ ~IsPrefix(toParts(src), toParts(dest))

C8_SelfMoveIsSegmentAware ==
  (last.op = "moveDir" /\ Resolves(last.pre, last.path))
  => /\ StrictDescendantPath(last.dest, last.path) =>
          /\ FailedWith("into itself", last.path)
          /\ fsTree = last.pre
     /\ RawPrefixOnly(last.dest, last.path) =>
          ~(Failed /\ last.out.err = "into itself")

(* moveDir("/a", "/ab") has succeeded: /ab has /a as a raw prefix only.    *)
C8_Witness ==
  /\ last.op = "moveDir"
  /\ last.path = <<"/", "a">>
  /\ last.dest = <<"/", "a", "b">>
  /\ RawPrefixOnly(last.dest, last.path)
  /\ Succeeded
  /\ Absent(fsTree, last.path)
  /\ ResolvesToDir(fsTree, last.dest)

(***************************************************************************)
(* C9: moveFile/moveDir(src, dest) of an accepted source to a dest that    *)
(* resolves to an existing file other than src: without force it fails     *)
(* with "already exists" and the tree is unchanged; with force it          *)
(* succeeds, dest names a node with dest's leaf name and the source's      *)
(* contents or children, and src no longer resolves.  Stated for absolute  *)
(* paths.                                                                  *)
(***************************************************************************)
C9_MoveOntoExistingFile ==
  LET src    == getNode(last.pre, last.path)
      parent == getParentPath(last.dest)
      leaf   == getNodeName(last.dest)
  IN  ( /\ last.op \in Moves
        /\ IsAbsolute(last.path) /\ IsAbsolute(last.dest)
        /\ SourceAccepted
        /\ ~SelfMove(last.path, last.dest)
        /\ ResolvesToFile(last.pre, last.dest) )
      => /\ ~last.force =>
              /\ FailedWith("already exists", last.dest)
              /\ fsTree = last.pre
         /\ last.force =>
              /\ Succeeded
              /\ Resolves(fsTree, last.dest)
              /\ getNode(fsTree, last.dest).name = leaf
              /\ SamePayload(getNode(fsTree, last.dest), src)
              /\ ~Resolves(fsTree, last.path)

(***************************************************************************)
(* C10: after a successful copyFile/copyDir(src, dest) the node at src     *)
(* resolves as before, and the destination (the child of dest named after  *)
(* src's leaf when dest was an existing directory, dest itself otherwise)  *)
(* resolves to a node with the source's contents or children.  Stated for  *)
(* absolute paths.                                                         *)
(***************************************************************************)
C10_CopyDuplicatesSource ==
  LET src     == getNode(last.pre, last.path)
      intoDir == ResolvesToDir(last.pre, last.dest)
      dirPath == IF intoDir THEN last.dest ELSE getParentPath(last.dest)
      leaf    == IF intoDir THEN getNodeName(last.path) ELSE getNodeName(last.dest)
  IN  ( /\ last.op \in Copies
        /\ IsAbsolute(last.path) /\ IsAbsolute(last.dest)
        /\ Succeeded )
      => /\ Resolves(fsTree, last.path)
         /\ getNode(fsTree, last.path) = src
         /\ ResolvesToDir(fsTree, dirPath)
         /\ ~IsUndefined(ChildAt(fsTree, dirPath, leaf))
         /\ SamePayload(ChildAt(fsTree, dirPath, leaf), src)

(***************************************************************************)
(* Vocabulary of the createDir properties.                                 *)
(***************************************************************************)
IgnoreIfExists == OrFalse(last.options.ignoreIfExists)

(* The call createDir(p, options) made once more on the tree the disk now  *)
(* holds.                                                                  *)
CreateDirAgain ==
  _createDir(fsTree, last.path, IgnoreIfExists, OrFalse(last.options.parents))

(* A file is the child that p's parent directory holds under p's leaf      *)
(* name ("/x/" names the place of the file /x).                            *)
FileStandsAt(tree, path) ==
  /\ ResolvesToDir(tree, getParentPath(path))
  /\ ~IsUndefined(ChildAt(tree, getParentPath(path), getNodeName(path)))
  /\ isFile(ChildAt(tree, getParentPath(path), getNodeName(path)))

(***************************************************************************)
(* C11: idempotent creation.  createDir(p, {ignoreIfExists: true}) on a    *)
(* path whose parent directory exists and at which no file stands          *)
(* succeeds, and the same call made again succeeds too and leaves the tree *)
(* equal to the tree after the first call.  Stated for absolute paths.     *)
(***************************************************************************)
C11_CreateDirTwiceIsIdempotent ==
  ( /\ last.op = "createDir"
    /\ IgnoreIfExists
    /\ IsAbsolute(last.path)
    /\ ResolvesToDir(last.pre, getParentPath(last.path))
    /\ ~FileStandsAt(last.pre, last.path) )
  => /\ Succeeded
     /\ CreateDirAgain.out.ok
     /\ CreateDirAgain.tree = fsTree

(***************************************************************************)
(* C12: createDir(p) with ignoreIfExists false on a path that resolves to  *)
(* a directory, the root "/" included, fails with "already exists" and     *)
(* leaves the tree unchanged.  Stated for absolute paths.                  *)
(***************************************************************************)
C12_CreateDirOnExistingDirectory ==
  ( /\ last.op = "createDir"
    /\ ~IgnoreIfExists
    /\ IsAbsolute(last.path)
    /\ ResolvesToDir(last.pre, last.path) )
  => /\ FailedWith("already exists", last.path)
     /\ fsTree = last.pre

(***************************************************************************)
(* C13: createDir(p) on a path that resolves to a file fails with "is      *)
(* already a file" and leaves the tree unchanged, whatever ignoreIfExists  *)
(* and parents are.                                                        *)
(***************************************************************************)
C13_CreateDirOnExistingFile ==
  ( /\ last.op = "createDir"
    /\ Resolves(last.pre, last.path)
    /\ ~isDir(getNode(last.pre, last.path)) )
  => /\ FailedWith("is already a file", last.path)
     /\ fsTree = last.pre

(* createDir("/x", {ignoreIfExists: true}) on the file /x has failed.      *)
C13_Witness ==
  /\ last.op = "createDir"
  /\ last.path = <<"/", "x">>
  /\ IgnoreIfExists
  /\ ResolvesToFile(last.pre, last.path)
  /\ FailedWith("is already a file", last.path)
  /\ ResolvesToFile(fsTree, last.path)

(***************************************************************************)
(* Vocabulary of the parents option.                                       *)
(***************************************************************************)
PathOf(segs) == <<"/">> \o join(segs)

(* The proper ancestors of p below the root, as paths.                     *)
Ancestors(path) ==
  {PathOf(SubSeq(Segments(path), 1, k)) : k \in 1..(Len(Segments(path)) - 1)}

(* At least one ancestor of p is missing, and every ancestor that is there *)
(* is a directory.                                                         *)
AncestorsMissing(tree, path) ==
  /\ IsAbsolute(path)
  /\ \E q \in Ancestors(path) : Absent(tree, q)
  /\ \A q \in Ancestors(path) : Absent(tree, q) \/ ResolvesToDir(tree, q)

RECURSIVE MkChain(_)
MkChain(segs) ==
  DirNode(segs[1], IF Len(segs) = 1 THEN <<>> ELSE <<MkChain(Tail(segs))>>)

(* mkdir -p: the tree with the directories of segs that are missing added, *)
(* each one after the children its parent already had.                     *)
RECURSIVE MkdirP(_, _)
MkdirP(node, segs) ==
  IF segs = <<>> THEN node
  ELSE LET named == ChildrenNamed(node, segs[1])
       IN  IF named = {}
           THEN DirNode(node.name, Append(node.children, MkChain(segs)))
           ELSE LET i == CHOOSE i \in named : \A j \in named : i <= j
                IN  DirNode(node.name,
                            [node.children EXCEPT ![i] = MkdirP(@, Tail(segs))])

(***************************************************************************)
(* C14: createDir(p, {parents: true}) with one or more ancestors of p      *)
(* missing succeeds; every ancestor that was missing is then a directory   *)
(* with exactly one child, the next segment of p; p resolves to an empty   *)
(* directory; and the tree differs from the one before only by the added   *)
(* chain of directories.                                                   *)
(***************************************************************************)
C14_CreateDirCreatesMissingAncestors ==
  ( /\ last.op = "createDir"
    /\ last.options.parents = "true"
    /\ AncestorsMissing(last.pre, last.path) )
  => /\ Succeeded
     /\ ResolvesToDir(fsTree, last.path)
     /\ getNode(fsTree, last.path).children = <<>>
     /\ \A q \in Ancestors(last.path) :
          Absent(last.pre, q) =>
            /\ ResolvesToDir(fsTree, q)
            /\ Len(getNode(fsTree, q).children) = 1
            /\ getNode(fsTree, q).children[1].name
                 = Segments(last.path)[Len(Segments(q)) + 1]
     /\ fsTree = MkdirP(last.pre, Segments(last.path))

(***************************************************************************)
(* C15: parents defaults to true.  A createDir call that does not specify  *)
(* parents (no options object, or an options object that gives only        *)
(* ignoreIfExists) on a path with missing ancestors succeeds and creates   *)
(* them.                                                                   *)
(***************************************************************************)
C15_ParentsDefaultsToTrue ==
  ( /\ last.op = "createDir"
    /\ (last.options = DefaultCreateDirOptions \/ last.options.parents = "undefined")
    /\ AncestorsMissing(last.pre, last.path) )
  => /\ Succeeded
     /\ ResolvesToDir(fsTree, last.path)
     /\ \A q \in Ancestors(last.path) : ResolvesToDir(fsTree, q)

(***************************************************************************)
(* Vocabulary of the listing properties.                                   *)
(***************************************************************************)
Range(seq) == {seq[i] : i \in 1..Len(seq)}

(* The paths at which the tree held a directory before the call and holds  *)
(* one after it.                                                           *)
DirsBeforeAndAfter ==
  {d \in Paths : ResolvesToDir(last.pre, d) /\ ResolvesToDir(fsTree, d)}

(***************************************************************************)
(* C16: readDir(d) on a directory returns one path per immediate child,    *)
(* the i-th being d + "/" + the i-th child's name; and after a createFile, *)
(* createDir, move or copy, the paths readDir(d) lists that it did not     *)
(* list before the call all come after the paths it listed before.         *)
(***************************************************************************)
C16_ReadDirListsInInsertionOrder ==
  /\ (last.op = "readDir" /\ ResolvesToDir(last.pre, last.path))
       => /\ Succeeded
          /\ Len(last.out.val) = Len(getNode(fsTree, last.path).children)
          /\ \A i \in 1..Len(last.out.val) :
               last.out.val[i]
                 = last.path \o <<"/">> \o getNode(fsTree, last.path).children[i].name
  /\ (last.op \in {"createFile", "createDir"} \cup Moves \cup Copies)
       => \A d \in DirsBeforeAndAfter :
            LET before == _readDir(last.pre, d).out.val
                after  == _readDir(fsTree, d).out.val
            IN  \A i, j \in 1..Len(after) :
                  (after[i] \notin Range(before) /\ after[j] \in Range(before))
                    => j < i

(* createFile("/a/q", c) has succeeded on a directory /a with children,    *)
(* and readDir("/a") lists the old children and then /a/q.                 *)
C16_Witness ==
  /\ last.op = "createFile"
  /\ last.path = <<"/", "a", "/", "q">>
  /\ Succeeded
  /\ Len(_readDir(last.pre, <<"/", "a">>).out.val) >= 2
  /\ _readDir(fsTree, <<"/", "a">>).out.val
       = Append(_readDir(last.pre, <<"/", "a">>).out.val, last.path)

(* The list a caller gets by applying readDir recursively: readDir(d), and *)
(* after each path of it that readDir accepts, the list of that path.      *)
RECURSIVE ViaReadDir(_, _), ViaReadDirEach(_, _)
ViaReadDir(tree, path) == ViaReadDirEach(tree, _readDir(tree, path).out.val)

ViaReadDirEach(tree, listed) ==
  IF listed = <<>> THEN <<>>
  ELSE LET p == Head(listed)
       IN  <<p>>
           \o (IF _readDir(tree, p).out.ok THEN ViaReadDir(tree, p) ELSE <<>>)
           \o ViaReadDirEach(tree, Tail(listed))

NoRepeats(seq) == \A i, j \in 1..Len(seq) : seq[i] = seq[j] => i = j

(***************************************************************************)
(* C17: readDirRecursive(d) on a directory returns every descendant's path *)
(* once, in depth-first pre-order: its result has no path twice and equals *)
(* the list obtained by applying readDir recursively, each directory's     *)
(* path followed at once by the list of that directory.                    *)
(***************************************************************************)
C17_ReadDirRecursiveIsPreOrder ==
  (last.op = "readDirRecursive" /\ ResolvesToDir(last.pre, last.path))
  => /\ Succeeded
     /\ NoRepeats(last.out.val)
     /\ last.out.val = ViaReadDir(fsTree, last.path)

(***************************************************************************)
(* Vocabulary of the read properties.                                      *)
(***************************************************************************)
Reads == {"readFile", "readDir", "readDirRecursive"}

(***************************************************************************)
(* C18, as stated: readFile, readDir and readDirRecursive on a path at     *)
(* which no node exists fail with "does not exist" and leave the tree      *)
(* unchanged.                                                              *)
(***************************************************************************)
C18_ReadOfMissingPathIsPathNotFound ==
  (last.op \in Reads /\ Absent(last.pre, last.path))
  => /\ FailedWith("does not exist", last.path)
     /\ fsTree = last.pre

(***************************************************************************)
(* C18, amended: readFile, readDir and readDirRecursive on a path at which *)
(* no node exists fail and leave the tree unchanged; the failure is "does  *)
(* not exist", except that readFile of a path ending in "/" fails with     *)
(* "Invalid filename", which it does before any lookup.                    *)
(***************************************************************************)
C18_ReadOfMissingPathFails ==
  (last.op \in Reads /\ Absent(last.pre, last.path))
  => /\ IF last.op = "readFile" /\ endsWithSlash(last.path)
        THEN FailedWith("Invalid filename", last.path)
        ELSE FailedWith("does not exist", last.path)
     /\ fsTree = last.pre

(* readDir("/m/n") has failed on a tree without /m.                        *)
C18_Witness ==
  /\ last.op = "readDir"
  /\ last.path = <<"/", "m", "/", "n">>
  /\ Absent(last.pre, last.path)
  /\ FailedWith("does not exist", last.path)
  /\ fsTree = last.pre

(***************************************************************************)
(* Vocabulary of the remove properties.                                    *)
(***************************************************************************)
Removes == {"remove", "removeFile", "removeDir"}

(* cs with its i-th element taken out.                                     *)
Without(cs, i) == SubSeq(cs, 1, i - 1) \o SubSeq(cs, i + 1, Len(cs))

(***************************************************************************)
(* C19: remove, removeFile and removeDir on a path at which no node exists *)
(* succeed and leave the tree unchanged when force is true (the value of   *)
(* the default options), and fail with "does not exist", the tree          *)
(* unchanged, when force is false.                                         *)
(***************************************************************************)
C19_RemoveOfMissingPath ==
  (last.op \in Removes /\ Absent(last.pre, last.path))
  => /\ fsTree = last.pre
     /\ IF last.force THEN Succeeded
        ELSE FailedWith("does not exist", last.path)

(* removeDir("/a/q") with force has succeeded on a tree without /a/q.      *)
C19_Witness ==
  /\ last.op = "removeDir"
  /\ last.path = <<"/", "a", "/", "q">>
  /\ last.force
  /\ Absent(last.pre, last.path)
  /\ Succeeded
  /\ fsTree = last.pre

(***************************************************************************)
(* C20: after a successful remove, removeFile or removeDir(p) of a node    *)
(* that existed, p no longer resolves, and the children of p's parent are  *)
(* the children it had with exactly one taken out, the child named by p,   *)
(* the others in their previous order.  Stated for absolute paths.         *)
(***************************************************************************)
C20_RemoveDetachesExactlyOneChild ==
  LET parent == getParentPath(last.path)
      leaf   == getNodeName(last.path)
      before == getNode(last.pre, parent).children
  IN  ( /\ last.op \in Removes
        /\ Succeeded
        /\ IsAbsolute(last.path)
        /\ Resolves(last.pre, last.path) )
      => /\ ~Resolves(fsTree, last.path)
         /\ ResolvesToDir(fsTree, parent)
         /\ \E i \in 1..Len(before) :
              /\ before[i].name = leaf
              /\ getNode(fsTree, parent).children = Without(before, i)

(***************************************************************************)
(* C21: removeFile on a path that resolves to a directory fails ("is a     *)
(* directory"), removeDir on a path that resolves to a file fails ("is a   *)
(* file"), whatever force is, and the tree is unchanged.                   *)
(***************************************************************************)
C21_TypedRemoveRejectsWrongKind ==
  /\ (last.op = "removeFile" /\ ResolvesToDir(last.pre, last.path))
       => /\ FailedWith("is a directory", last.path)
          /\ fsTree = last.pre
  /\ (last.op = "removeDir" /\ ResolvesToFile(last.pre, last.path))
       => /\ FailedWith("is a file", last.path)
          /\ fsTree = last.pre

(* removeFile("/a", {force: true}) on the directory /a has failed.         *)
C21_Witness ==
  /\ last.op = "removeFile"
  /\ last.path = <<"/", "a">>
  /\ last.force
  /\ ResolvesToDir(last.pre, last.path)
  /\ FailedWith("is a directory", last.path)
  /\ ResolvesToDir(fsTree, last.path)

(***************************************************************************)
(* C22: a call given a path without a leading "/" (its path, or the        *)
(* source or destination of a move or copy) fails with an invalid-path     *)
(* error and leaves the tree unchanged.                                    *)
(***************************************************************************)
InvalidPathErrors == {"Invalid path", "Invalid filename", "is invalid"}

C22_RelativePathIsRejected ==
  ( /\ last.op # "none"
    /\ \/ ~IsAbsolute(last.path)
       \/ (last.op \in Moves \cup Copies /\ ~IsAbsolute(last.dest)) )
  => /\ Failed
     /\ last.out.err \in InvalidPathErrors
     /\ fsTree = last.pre

(***************************************************************************)
(* Vocabulary of the frame properties.                                     *)
(***************************************************************************)
(* The index of the child a lookup finds under the name n, 0 if none.      *)
FirstNamed(dir, n) ==
  IF ChildrenNamed(dir, n) = {} THEN 0
  ELSE CHOOSE i \in ChildrenNamed(dir, n) : \A j \in ChildrenNamed(dir, n) : i <= j

(* The children of dir other than the one a lookup finds under n.          *)
Others(dir, n) ==
  IF FirstNamed(dir, n) = 0 THEN dir.children
  ELSE Without(dir.children, FirstNamed(dir, n))

(* old and new differ at most along the directories named by segs and, in *)
(* the last of them, in the child named leaf.                              *)
RECURSIVE SameOffPath(_, _, _, _)
SameOffPath(old, new, segs, leaf) ==
  /\ isDir(old) /\ isDir(new)
  /\ old.name = new.name
  /\ IF segs = <<>> THEN Others(old, leaf) = Others(new, leaf)
     ELSE /\ Others(old, segs[1]) = Others(new, segs[1])
          /\ (FirstNamed(old, segs[1]) # 0 /\ FirstNamed(new, segs[1]) # 0)
               => SameOffPath(old.children[FirstNamed(old, segs[1])],
                              new.children[FirstNamed(new, segs[1])],
                              Tail(segs), leaf)

(***************************************************************************)
(* C26: a successful createFile, createDir or remove on p changes the tree *)
(* only along the path from the root to p's parent: every child of a       *)
(* directory on that path other than the next directory of the path is     *)
(* identical before and after and keeps its place among the others, and so *)
(* are the children of p's parent other than the one p names.              *)
(***************************************************************************)
C26_OnlyTheParentsChildListChanges ==
  ( /\ last.op \in {"createFile", "createDir"} \cup Removes
    /\ Succeeded )
  => SameOffPath(last.pre, fsTree, Segments(getParentPath(last.path)),
                 getNodeName(last.path))

(***************************************************************************)
(* C27: when readDir(d) or readDirRecursive(d) has succeeded (d the root   *)
(* and d written with a trailing "/" included), every path it returned     *)
(* resolves: readFile or readDir succeeds on it; and the i-th path of      *)
(* readDir(d) resolves to the i-th child of d.  Stated for absolute d.     *)
(***************************************************************************)
C27_ListedPathsResolve ==
  ( /\ last.op \in {"readDir", "readDirRecursive"}
    /\ IsAbsolute(last.path)
    /\ Succeeded )
  => /\ \A i \in 1..Len(last.out.val) :
          \/ _readFile(fsTree, last.out.val[i]).out.ok
          \/ _readDir(fsTree, last.out.val[i]).out.ok
     /\ last.op = "readDir" =>
          \A i \in 1..Len(last.out.val) :
            getNode(fsTree, last.out.val[i]) = getNode(fsTree, last.path).children[i]

(***************************************************************************)
(* C29: createFile(p, c) with force on a path p (a file path, not ending   *)
(* in "/") that resolves to a directory succeeds, and p's parent then      *)
(* holds the file p with contents c as its last child and no other child   *)
(* under that name.  Stated for absolute paths.                            *)
(***************************************************************************)
C29_ForcedCreateFileReplacesDirectory ==
  LET parent == getParentPath(last.path)
      leaf   == getNodeName(last.path)
  IN  ( /\ last.op = "createFile"
        /\ last.force
        /\ IsAbsolute(last.path)
        /\ isValidFilePath(last.path)
        /\ ResolvesToDir(last.pre, last.path) )
      => /\ Succeeded
         /\ ResolvesToDir(fsTree, parent)
         /\ LET cs == getNode(fsTree, parent).children
            IN  /\ cs[Len(cs)] = FileNode(leaf, last.contents)
                /\ ChildrenNamed(getNode(fsTree, parent), leaf) = {Len(cs)}
         /\ getNode(fsTree, last.path) = FileNode(leaf, last.contents)

(***************************************************************************)
(* C30: the root of the disk is always a directory with the name it was    *)
(* given at construction, the empty name.                                  *)
(***************************************************************************)
C30_RootStaysTheRootDirectory ==
  /\ isDir(fsTree)
  /\ fsTree.name = InitialTree.name

(* moveDir with the root as its source and removeDir("/") have been        *)
(* accepted (they succeeded) and the root is still there.                  *)
C30_Witness ==
  /\ last.op \in {"removeDir", "remove", "moveDir", "copyDir"}
  /\ getNode(last.pre, last.path) = last.pre
  /\ Succeeded
  /\ last.op = "moveDir" => fsTree # last.pre
  /\ isDir(fsTree)

(***************************************************************************)
(* cloneDirWithModification on its own: the function applied to the tree  *)
(* held, with a path of Paths and one of the functions the methods pass.  *)
(* The tree it returns becomes the tree held; when it throws, the tree    *)
(* held stays.                                                             *)
(***************************************************************************)
Mods ==
  { ModPutFile(<<"/", "n">>, "c3", TRUE),
    ModPutFile(<<"/", "a">>, "c3", FALSE),
    ModAppend(DirNode(<<"n">>, <<>>)),
    ModRemove(<<"a">>) }

clone ==
  /\ Ready
  /\ \E path \in Paths, mod \in Mods :
       LET new == cloneDirWithModification(fsTree, path, mod)
       IN  /\ nops' = nops + 1
           /\ fsTree' = IF IsErr(new) THEN fsTree ELSE new
           /\ last' = [op |-> "clone", path |-> path, mod |-> mod, pre |-> fsTree,
                       out |-> IF IsErr(new) THEN new ELSE Ok(new)]
  /\ UNCHANGED <<heap, fsRoot, snapshot, resets, calls>>

NextClone ==
  \/ clone
  \/ await

SpecClone == Init /\ [][NextClone]_vars

(* The node the first k segments of path lead to, Undefined when one of   *)
(* them is missing or lies below a file.                                   *)
RECURSIVE Walk(_, _)
Walk(node, segs) ==
  IF segs = <<>> THEN node
  ELSE IF IsUndefined(node) \/ isFile(node) THEN Undefined
  ELSE Walk(find(node.children, Head(segs)), Tail(segs))

Upto(path, k) == SubSeq(Segments(path), 1, k)

MissingSegment(tree, path) ==
  \E k \in 1..Len(Segments(path)) :
    /\ IsUndefined(Walk(tree, Upto(path, k)))
    /\ \A j \in 1..(k - 1) : isDir(Walk(tree, Upto(path, j)))

FileSegment(tree, path) ==
  \E k \in 1..Len(Segments(path)) :
    /\ ~IsUndefined(Walk(tree, Upto(path, k)))
    /\ isFile(Walk(tree, Upto(path, k)))

(* C25: cloneDirWithModification fails with "does not exist" when a        *)
(* segment of its target path is missing and with "is not a directory"     *)
(* when a segment is a file; when it returns a tree, the target directory  *)
(* of that tree is the function's result on the target directory of the    *)
(* tree it was given.                                                      *)
C25_CloneFailsOnUnreachableTarget ==
  last.op = "clone" =>
    /\ MissingSegment(last.pre, last.path) =>
          Failed /\ last.out.err = "does not exist"
    /\ FileSegment(last.pre, last.path) =>
          Failed /\ last.out.err = "is not a directory"
    /\ Succeeded =>
          /\ ~IsUndefined(Walk(last.pre, Segments(last.path)))
          /\ isDir(Walk(last.pre, Segments(last.path)))
          /\ Walk(fsTree, Segments(last.path))
               = fnModify(last.mod, Walk(last.pre, Segments(last.path)))

(* The objects of the disk show the tree that the methods of Spec compute. *)
HeapShowsTree == Deref(heap, fsRoot) = fsTree

(* C24: the tree that a reference obtained through __data() shows is the   *)
(* tree it showed when it was obtained, whatever calls were made since.    *)
C24_SnapshotStaysAsObtained ==
  snapshot # NoSnapshot => Deref(heap, snapshot.ref) = snapshot.was

(* A call made after __data() has changed the tree of the disk.            *)
C24_Witness ==
  /\ snapshot # NoSnapshot
  /\ last.op \in Moves
  /\ Succeeded
  /\ last.pre = snapshot.was
  /\ fsTree # snapshot.was
  /\ Deref(heap, snapshot.ref) = snapshot.was

(* C28: after __reset() and open() the tree of the disk is the tree the    *)
(* WebDisk was constructed with, whatever calls were made before.          *)
C28_ResetRestoresTheOriginalTree ==
  last.op = "__reset" => fsTree = InitialTree /\ Deref(heap, fsRoot) = InitialTree

(* __reset() after two calls that left another tree.                       *)
C28_Witness ==
  /\ last.op = "__reset"
  /\ nops = MaxOps
  /\ last.pre # InitialTree
  /\ fsTree = InitialTree

(* The method of a logged call, run as a whole on a tree.                  *)
Run(c, tree) ==
  CASE c.op = "createFile" -> _createFile(tree, c.path, c.contents, c.force)
    [] c.op = "createDir" ->
         _createDir(tree, c.path, OrFalse(c.options.ignoreIfExists),
                    OrFalse(c.options.parents))
    [] c.op = "moveFile" -> _moveFile(tree, c.path, c.dest, c.force, TRUE)
    [] c.op = "moveDir" -> _moveDir(tree, c.path, c.dest, c.force, TRUE)
    [] c.op = "copyFile" -> _moveFile(tree, c.path, c.dest, c.force, FALSE)
    [] c.op = "copyDir" -> _moveDir(tree, c.path, c.dest, c.force, FALSE)
    [] c.op = "removeFile" -> _removeFile(tree, c.path, c.force)
    [] c.op = "removeDir" -> _removeDir(tree, c.path, c.force)
    [] c.op = "remove" -> remove(tree, c.path, c.force)
    [] OTHER -> R(tree, Ok(Void))

(* The tree after the logged calls are run one after the other in order.   *)
RECURSIVE InSequence(_, _, _)
InSequence(order, k, tree) ==
  IF k > Len(order) THEN tree
  ELSE InSequence(order, k + 1, Run(calls[order[k]], tree).tree)

Orders ==
  {f \in [1..Len(calls) -> 1..Len(calls)] :
     \A i, j \in 1..Len(calls) : f[i] = f[j] => i = j}

(* C23: of calls that overlap, none is made on a tree that a move has left *)
(* between its two updates, and once every body has ended the tree is the  *)
(* one that the calls, run one after the other in some order, leave.       *)
C23_OverlappingCallsAreSerial ==
  /\ \A i \in 1..Len(calls) : calls[i].during = {}
  /\ Between = {} =>
       \E order \in Orders : InSequence(order, 1, InitialTree) = fsTree

(* A move that changed the tree with both its updates, and a mutating call *)
(* made without awaiting it.                                               *)
C23_Witness ==
  /\ Len(calls) = 2
  /\ Between = {}
  /\ calls[1].op \in Moves
  /\ calls[1].out.ok
  /\ calls[1].post # calls[1].pre
  /\ calls[2].op \in Mutators
  /\ calls[2].out.ok
  /\ calls[2].post # calls[2].pre
====
